---- MODULE Spec2Model ----
(***************************************************************************)
(* The SQuAD teachers of parlai/tasks/squad/agents.py.                     *)
(*                                                                         *)
(* A teacher object is built over the loaded SQuAD json (squad) and then   *)
(* serves records: IndexTeacher and SentenceIndexTeacher through           *)
(* get(episode_idx), DefaultTeacher and SentenceTeacher through the        *)
(* generator setup_data.  The two Sentence teachers replace the answers by *)
(* the sentences that contain them (edit the answers out of the context,   *)
(* tokenize, restore, select).                                             *)
(*                                                                         *)
(* Strings are sequences of one-character strings.  Sequences are 1-based  *)
(* here and 0-based in Python: loop indices and the triples of examples    *)
(* are shifted by one, while answer_start and the value of str.index keep  *)
(* their 0-based Python value.                                             *)
(***************************************************************************)
EXTENDS Integers, Sequences, FiniteSets, TLC

\* Bounds of the explored inputs: the characters of a one-question file's
\* context and answer texts together, the articles, paragraphs and
\* questions of a file together, and the get calls on one teacher.
MaxInput == 6
MaxNodes == 7
MaxCalls == 3

\* The characters of the explored strings, and the sentence-terminal
\* punctuation the code removes from the answers.
Chars == {"a", "b", "."}
Terminal == {".", "?", "!"}
NL == <<"\n">>

---------------------------------------------------------------------------
\* Python's str operations.

\* sub occurs in s at (1-based) position i.
StartsAt(s, sub, i) ==
    /\ i + Len(sub) - 1 <= Len(s)
    /\ SubSeq(s, i, i + Len(sub) - 1) = sub

\* sub in s
Contains(s, sub) == \E i \in 1..(Len(s) + 1) : StartsAt(s, sub, i)

\* The first position at or after i where sub occurs in s, 0 if none.
RECURSIVE FindFrom(_, _, _)
FindFrom(s, sub, i) ==
    IF i + Len(sub) - 1 > Len(s) THEN 0
    ELSE IF StartsAt(s, sub, i) THEN i ELSE FindFrom(s, sub, i + 1)

\* s.index(sub): the 0-based offset of the first occurrence; -1 stands for
\* the ValueError that str.index raises when there is none.
StrIndex(s, sub) == FindFrom(s, sub, 1) - 1

RECURSIVE ReplaceFrom(_, _, _, _)
ReplaceFrom(s, old, new, i) ==
    IF i > Len(s) THEN <<>>
    ELSE IF StartsAt(s, old, i)
         THEN new \o ReplaceFrom(s, old, new, i + Len(old))
         ELSE <<s[i]>> \o ReplaceFrom(s, old, new, i + 1)

RECURSIVE Interleave(_, _, _)
Interleave(s, new, i) ==
    IF i > Len(s) THEN <<>>
    ELSE <<s[i]>> \o new \o Interleave(s, new, i + 1)

\* s.replace(old, new): every non-overlapping occurrence, left to right; an
\* empty old matches before every character and at the end.
StrReplace(s, old, new) ==
    IF old = <<>> THEN new \o Interleave(s, new, 1)
    ELSE ReplaceFrom(s, old, new, 1)

---------------------------------------------------------------------------
\* The answer-sentence aligner (SentenceIndexTeacher.get, and the same code
\* in SentenceTeacher.setup_data).

\* answer.replace('.', '').replace('?', '').replace('!', '')
EditAnswer(answer) ==
    StrReplace(StrReplace(StrReplace(answer, <<".">>, <<>>), <<"?">>, <<>>),
               <<"!">>, <<>>)

\* edited_answers after the edit loop.
RECURSIVE EditedAnswers(_)
EditedAnswers(answers) ==
    IF answers = <<>> THEN <<>>
    ELSE <<EditAnswer(Head(answers))>> \o EditedAnswers(Tail(answers))

\* context after the first k iterations of the edit loop.
RECURSIVE EditContext(_, _, _)
EditContext(context, answers, k) ==
    IF k = 0 THEN context
    ELSE StrReplace(EditContext(context, answers, k - 1),
                    answers[k], EditAnswer(answers[k]))

\* The places where the tokenizer sent_tok splits text: after a terminal
\* punctuation character that is not the last one, at the positions its
\* trained model (cuts) decides for.
CutsOf(cuts, text) ==
    {p \in 1..(Len(text) - 1) : p \in cuts /\ text[p] \in Terminal}

RECURSIVE Segments(_, _, _)
Segments(text, cs, from) ==
    IF from > Len(text) THEN <<>>
    ELSE LET later == {p \in cs : p >= from}
         IN  IF later = {} THEN <<SubSeq(text, from, Len(text))>>
             ELSE LET p == CHOOSE x \in later : \A y \in later : x <= y
                  IN  <<SubSeq(text, from, p)>> \o Segments(text, cs, p + 1)

\* self.sent_tok.tokenize(context): the sentences, in order.
Tokenize(cuts, text) == Segments(text, CutsOf(cuts, text), 1)

\* s after the first k iterations of
\*     for i in range(len(edited_answers)): s = s.replace(edited_answers[i], answers[i])
RECURSIVE RestorePrefix(_, _, _, _)
RestorePrefix(s, edited, answers, k) ==
    IF k = 0 THEN s
    ELSE StrReplace(RestorePrefix(s, edited, answers, k - 1),
                    edited[k], answers[k])

\* What the inner loop (answers i, i + 1, ...) appends to sentences for the
\* s-th tokenized sentence: the append is inside the loop over the answers,
\* so the sentence is appended once per answer, restored so far.  src
\* remembers which tokenized sentence an entry comes from.
RECURSIVE RestoreSentence(_, _, _, _, _)
RestoreSentence(sentence, edited, answers, i, s) ==
    IF i > Len(answers) THEN <<>>
    ELSE LET restored == StrReplace(sentence, edited[i], answers[i])
         IN  <<[text |-> restored, src |-> s]>>
                 \o RestoreSentence(restored, edited, answers, i + 1, s)

\* What the outer loop appends to sentences from the s-th tokenized
\* sentence on.
RECURSIVE RestoreSentences(_, _, _, _)
RestoreSentences(edited_sentences, edited, answers, s) ==
    IF s > Len(edited_sentences) THEN <<>>
    ELSE RestoreSentence(edited_sentences[s], edited, answers, 1, s)
             \o RestoreSentences(edited_sentences, edited, answers, s + 1)

\* context after the restore loop.
RestoreContext(context, edited, answers) ==
    RestorePrefix(context, edited, answers, Len(answers))

\* SelectLabels without the test "answer in sentence".
RECURSIVE SelectLabelsAll(_, _, _, _)
SelectLabelsAll(sentences, answers, k, labels) ==
    IF k > Len(sentences) THEN labels
    ELSE IF \A l \in 1..Len(labels) : labels[l].text # sentences[k].text
         THEN SelectLabelsAll(sentences, answers, k + 1, Append(labels, sentences[k]))
         ELSE SelectLabelsAll(sentences, answers, k + 1, labels)

\* SelectLabels without the test "sentence not in labels".
RECURSIVE SelectLabelsDup(_, _, _, _)
SelectLabelsDup(sentences, answers, k, labels) ==
    IF k > Len(sentences) THEN labels
    ELSE IF \E a \in 1..Len(answers) : Contains(sentences[k].text, answers[a])
         THEN SelectLabelsDup(sentences, answers, k + 1, Append(labels, sentences[k]))
         ELSE SelectLabelsDup(sentences, answers, k + 1, labels)

\* labels after the loop over sentences[k], sentences[k + 1], ..., given
\* the labels appended before.
RECURSIVE SelectLabels(_, _, _, _)
SelectLabels(sentences, answers, k, labels) ==
    IF k > Len(sentences) THEN labels
    ELSE IF /\ \E a \in 1..Len(answers) : Contains(sentences[k].text, answers[a])
            /\ \A l \in 1..Len(labels) : labels[l].text # sentences[k].text
         THEN SelectLabels(sentences, answers, k + 1, Append(labels, sentences[k]))
         ELSE SelectLabels(sentences, answers, k + 1, labels)

\* The locals of one run of the aligner.
Align(context0, answers, cuts) ==
    LET edited == EditedAnswers(answers)
        edited_context == EditContext(context0, answers, Len(answers))
        edited_sentences == Tokenize(cuts, edited_context)
        sentences == RestoreSentences(edited_sentences, edited, answers, 1)
        context == RestoreContext(edited_context, edited, answers)
        picked == SelectLabels(sentences, answers, 1, <<>>)
    IN  [ran |-> TRUE,
         context0 |-> context0,
         answers |-> answers,
         edited_context |-> edited_context,
         edited_sentences |-> edited_sentences,
         sentences |-> sentences,
         context |-> context,
         picked |-> picked]

NoLocals ==
    [ran |-> FALSE, context0 |-> <<>>, answers |-> <<>>, edited_context |-> <<>>,
     edited_sentences |-> <<>>, sentences |-> <<>>, context |-> <<>>,
     picked |-> <<>>]

---------------------------------------------------------------------------
\* The loaded data: squad is json.load(data_file)['data'], a list of
\* articles [paragraphs], each paragraph [context, qas], each qa
\* [question, answers], each answer [text, answer_start].

\* IndexTeacher._setup_data: the three nested loops that fill examples.
ExamplesOfParagraph(sq, a, p) ==
    [q \in 1..Len(sq[a].paragraphs[p].qas) |-> <<a, p, q>>]

\* ExamplesOfArticle with the paragraphs taken last to first.
RECURSIVE ExamplesOfArticleRev(_, _, _)
ExamplesOfArticleRev(sq, a, np) ==
    IF np = 0 THEN <<>>
    ELSE ExamplesOfParagraph(sq, a, np) \o ExamplesOfArticleRev(sq, a, np - 1)

RECURSIVE ExamplesOfArticle(_, _, _)
ExamplesOfArticle(sq, a, np) ==
    IF np = 0 THEN <<>>
    ELSE ExamplesOfArticle(sq, a, np - 1) \o ExamplesOfParagraph(sq, a, np)

RECURSIVE ExamplesUpTo(_, _)
ExamplesUpTo(sq, na) ==
    IF na = 0 THEN <<>>
    ELSE ExamplesUpTo(sq, na - 1) \o ExamplesOfArticle(sq, na, Len(sq[na].paragraphs))

SetupExamples(sq) == ExamplesUpTo(sq, Len(sq))

\* [a['text'] for a in qa['answers']]
AnswerTexts(qa) == [k \in 1..Len(qa.answers) |-> qa.answers[k].text]

\* IndexRecord with answer_starts collected in the reverse order.
IndexRecordReversed(sq, ex) ==
    LET paragraph == sq[ex[1]].paragraphs[ex[2]]
        qa == paragraph.qas[ex[3]]
        n == Len(qa.answers)
    IN  [id |-> "squad",
         text |-> paragraph.context \o NL \o qa.question,
         labels |-> [k \in 1..n |-> qa.answers[k].text],
         episode_done |-> TRUE,
         answer_starts |-> [k \in 1..n |-> qa.answers[n + 1 - k].answer_start]]

\* The action IndexTeacher.get builds.
IndexRecord(sq, ex) ==
    LET paragraph == sq[ex[1]].paragraphs[ex[2]]
        qa == paragraph.qas[ex[3]]
    IN  [id |-> "squad",
         text |-> paragraph.context \o NL \o qa.question,
         labels |-> AnswerTexts(qa),
         episode_done |-> TRUE,
         answer_starts |-> [k \in 1..Len(qa.answers) |-> qa.answers[k].answer_start]]

\* The locals of SentenceIndexTeacher.get for one example.
SentenceLocals(sq, ex, cuts) ==
    LET paragraph == sq[ex[1]].paragraphs[ex[2]]
    IN  Align(paragraph.context, AnswerTexts(paragraph.qas[ex[3]]), cuts)

\* label_starts: context.index(sentence) of every label.
LabelStarts(loc) ==
    [k \in 1..Len(loc.picked) |-> StrIndex(loc.context, loc.picked[k].text)]

\* context.index raises ValueError for a label that is not in context.
IndexRaises(loc) == \E k \in 1..Len(loc.picked) : LabelStarts(loc)[k] = -1

LabelTexts(loc) == [k \in 1..Len(loc.picked) |-> loc.picked[k].text]

\* The action SentenceIndexTeacher.get builds.
SentenceIndexRecord(loc, question) ==
    [id |-> "squad",
     text |-> loc.context \o NL \o question,
     labels |-> LabelTexts(loc),
     episode_done |-> TRUE,
     answer_starts |-> LabelStarts(loc)]

\* What a setup_data generator yields: (text, labels), True.
YieldRecord(text, labels) ==
    [id |-> "squad", text |-> text, labels |-> labels, episode_done |-> TRUE,
     answer_starts |-> <<>>]

NoRecord == YieldRecord(<<>>, <<>>)

\* The loops of setup_data (for article / for paragraph / for qa): the first
\* question at or after loop position pos, <<0, 0, 0>> when the loops end.
Exhausted == <<0, 0, 0>>

RECURSIVE NextPos(_, _)
NextPos(sq, pos) ==
    IF pos[1] > Len(sq) THEN Exhausted
    ELSE IF pos[2] > Len(sq[pos[1]].paragraphs)
         THEN NextPos(sq, <<pos[1] + 1, 1, 1>>)
         ELSE IF pos[3] > Len(sq[pos[1]].paragraphs[pos[2]].qas)
              THEN NextPos(sq, <<pos[1], pos[2] + 1, 1>>)
              ELSE pos

---------------------------------------------------------------------------
\* The teacher object.

VARIABLES
    teacher,    \* the class of the object
    squad,      \* self.squad
    examples,   \* self.examples (IndexTeacher and its subclass)
    sent_tok,   \* self.sent_tok: where the loaded tokenizer splits
    gen,        \* the setup_data generator: last loop position, records yielded
    action,     \* the last record returned or yielded, or the error raised
    locals,     \* the aligner's locals in that call
    first,      \* the outcome of the first get call
    ncalls      \* the number of get calls made

vars == <<teacher, squad, examples, sent_tok, gen, action, locals, first, ncalls>>

IndexTeachers == {"IndexTeacher", "SentenceIndexTeacher"}
SentenceTeachers == {"SentenceTeacher", "SentenceIndexTeacher"}
Teachers == {"IndexTeacher", "DefaultTeacher", "SentenceTeacher", "SentenceIndexTeacher"}

NoAction == [kind |-> "none", idx |-> 0, rec |-> NoRecord]

\* The state after __init__.
Construct(t, sq, cuts) ==
    /\ teacher = t
    /\ squad = sq
    /\ examples = IF t \in IndexTeachers THEN SetupExamples(sq) ELSE <<>>
    /\ sent_tok = cuts
    /\ gen = [pos |-> <<1, 1, 0>>, n |-> 0, done |-> FALSE]
    /\ action = NoAction
    /\ locals = NoLocals
    /\ first = NoAction
    /\ ncalls = 0

\* The positions at which a tokenizer can split the texts the teacher hands
\* it: after a terminal character of the edited context of some question.
SplitPlaces(sq) ==
    LET exs == SetupExamples(sq)
        edctx(ex) ==
            LET paragraph == sq[ex[1]].paragraphs[ex[2]]
                answers == AnswerTexts(paragraph.qas[ex[3]])
            IN  EditContext(paragraph.context, answers, Len(answers))
    IN  UNION {{p \in 1..(Len(edctx(exs[i])) - 1) : edctx(exs[i])[p] \in Terminal} :
               i \in 1..Len(exs)}

Tokenizers(t, sq) == IF t \in SentenceTeachers THEN SUBSET SplitPlaces(sq) ELSE {{}}

\* Input data.  An answer of SQuAD is a span of its paragraph's context:
\* text is the span and answer_start its 0-based offset.
Strings(n) == UNION {[1..k -> Chars] : k \in 1..n}

SpansOf(ctx) ==
    {[text |-> SubSeq(ctx, x[1], x[1] + x[2] - 1), answer_start |-> x[1] - 1] :
        x \in {y \in (1..Len(ctx)) \X (1..Len(ctx)) : y[1] + y[2] - 1 <= Len(ctx)}}

\* The lists of answers whose texts have at most r characters together.
RECURSIVE AnswerListsWithin(_, _)
AnswerListsWithin(ctx, r) ==
    {<<>>} \cup
    UNION {{<<sp>> \o rest : rest \in AnswerListsWithin(ctx, r - Len(sp.text))} :
           sp \in {x \in SpansOf(ctx) : Len(x.text) <= r}}

\* qa['answers'] is not empty.
AnswerLists(ctx) == AnswerListsWithin(ctx, MaxInput - Len(ctx)) \ {<<>>}

\* The q-th question of a paragraph: "a?", "aa?", ...
Question(q) == [k \in 1..(q + 1) |-> IF k <= q THEN "a" ELSE "?"]

\* A file with one article, one paragraph and one question.
OneQuestion(ctx, answers) ==
    << [paragraphs |->
         << [context |-> ctx,
             qas |-> << [question |-> Question(1), answers |-> answers] >>] >>] >>

\* Files of every shape with at most MaxNodes articles, paragraphs and
\* questions: sh[a][p] is the number of questions of paragraph p of
\* article a.  The context of paragraph (a, p) is a times "a", ".", p
\* times "b", "?"; an odd question has the answer "a..a", an even one the
\* answers "a..a." and "b..b" (in an odd paragraph) or "b..b?" and "a..a."
\* (in an even one).
RECURSIVE ParagraphShapes(_)
ParagraphShapes(b) ==
    {<<>>} \cup
    UNION {{<<q>> \o rest : rest \in ParagraphShapes(b - 1 - q)} : q \in 0..(b - 1)}

RECURSIVE Nodes(_)
Nodes(ps) == IF ps = <<>> THEN 0 ELSE 1 + Head(ps) + Nodes(Tail(ps))

RECURSIVE ArticleShapes(_)
ArticleShapes(b) ==
    IF b = 0 THEN {<<>>}
    ELSE {<<>>} \cup
         UNION {{<<ps>> \o rest : rest \in ArticleShapes(b - 1 - Nodes(ps))} :
                ps \in ParagraphShapes(b - 1)}

Shapes == ArticleShapes(MaxNodes)

FlatContext(a, p) ==
    [k \in 1..(a + p + 2) |->
        IF k <= a THEN "a" ELSE IF k = a + 1 THEN "." ELSE
        IF k <= a + p + 1 THEN "b" ELSE "?"]

FlatAnswers(a, p, q) ==
    LET ctx == FlatContext(a, p)
    IN  IF q % 2 = 1
        THEN << [text |-> SubSeq(ctx, 1, a), answer_start |-> 0] >>
        ELSE IF p % 2 = 1
             THEN << [text |-> SubSeq(ctx, 1, a + 1), answer_start |-> 0],
                     [text |-> SubSeq(ctx, a + 2, a + p + 1), answer_start |-> a + 1] >>
             ELSE << [text |-> SubSeq(ctx, a + 2, a + p + 2), answer_start |-> a + 1],
                     [text |-> SubSeq(ctx, 1, a + 1), answer_start |-> 0] >>

FlatSquad(sh) ==
    [a \in 1..Len(sh) |->
        [paragraphs |->
            [p \in 1..Len(sh[a]) |->
                [context |-> FlatContext(a, p),
                 qas |-> [q \in 1..sh[a][p] |->
                            [question |-> Question(q),
                             answers |-> FlatAnswers(a, p, q)]]]]]]

\* A teacher over a one-question file with any context and answers.
Init ==
    \E t \in Teachers, ctx \in Strings(MaxInput - 1) :
        \E answers \in AnswerLists(ctx) :
            \E cuts \in Tokenizers(t, OneQuestion(ctx, answers)) :
                Construct(t, OneQuestion(ctx, answers), cuts)

\* A teacher over a file of any shape.
InitFlat ==
    \E t \in Teachers, sh \in Shapes :
        \E cuts \in Tokenizers(t, FlatSquad(sh)) :
            Construct(t, FlatSquad(sh), cuts)

\* IndexTeacher.get(episode_idx)
IndexGet(i) ==
    /\ teacher = "IndexTeacher"
    /\ ncalls < MaxCalls
    /\ action' = [kind |-> "return", idx |-> i, rec |-> IndexRecord(squad, examples[i])]
    /\ first' = IF ncalls = 0 THEN action' ELSE first
    /\ ncalls' = ncalls + 1
    /\ UNCHANGED <<teacher, squad, examples, sent_tok, gen, locals>>

\* SentenceIndexTeacher.get that stores the edited context in the paragraph
\* (paragraph['context'] = context after the edit loop).
SentenceIndexGetInPlace(i) ==
    /\ teacher = "SentenceIndexTeacher"
    /\ ncalls < MaxCalls
    /\ \E loc \in {SentenceLocals(squad, examples[i], sent_tok)} :
       LET ex == examples[i]
           question == squad[ex[1]].paragraphs[ex[2]].qas[ex[3]].question
       IN  /\ locals' = loc
           /\ squad' = [squad EXCEPT ![ex[1]].paragraphs[ex[2]].context = loc.edited_context]
           /\ action' = IF IndexRaises(loc)
                        THEN [kind |-> "raise", idx |-> i, rec |-> NoRecord]
                        ELSE [kind |-> "return", idx |-> i,
                              rec |-> SentenceIndexRecord(loc, question)]
    /\ first' = IF ncalls = 0 THEN action' ELSE first
    /\ ncalls' = ncalls + 1
    /\ UNCHANGED <<teacher, examples, sent_tok, gen>>

\* SentenceIndexTeacher.get(episode_idx)
SentenceIndexGet(i) ==
    /\ teacher = "SentenceIndexTeacher"
    /\ ncalls < MaxCalls
    /\ \E loc \in {SentenceLocals(squad, examples[i], sent_tok)} :
       LET ex == examples[i]
           question == squad[ex[1]].paragraphs[ex[2]].qas[ex[3]].question
       IN  /\ locals' = loc
           /\ action' = IF IndexRaises(loc)
                        THEN [kind |-> "raise", idx |-> i, rec |-> NoRecord]
                        ELSE [kind |-> "return", idx |-> i,
                              rec |-> SentenceIndexRecord(loc, question)]
    /\ first' = IF ncalls = 0 THEN action' ELSE first
    /\ ncalls' = ncalls + 1
    /\ UNCHANGED <<teacher, squad, examples, sent_tok, gen>>

\* One next() of DefaultTeacher.setup_data.
DefaultNext ==
    /\ teacher = "DefaultTeacher"
    /\ ~gen.done
    /\ LET pos == NextPos(squad, <<gen.pos[1], gen.pos[2], gen.pos[3] + 1>>)
       IN  IF pos = Exhausted
           THEN /\ gen' = [gen EXCEPT !.done = TRUE]
                /\ UNCHANGED action
           ELSE LET paragraph == squad[pos[1]].paragraphs[pos[2]]
                    qa == paragraph.qas[pos[3]]
                IN  /\ gen' = [pos |-> pos, n |-> gen.n + 1, done |-> FALSE]
                    /\ action' = [kind |-> "yield", idx |-> gen.n + 1,
                                  rec |-> YieldRecord(paragraph.context \o NL \o qa.question,
                                                      AnswerTexts(qa))]
    /\ UNCHANGED <<teacher, squad, examples, sent_tok, locals, first, ncalls>>

\* One next() of SentenceTeacher.setup_data.
SentenceNext ==
    /\ teacher = "SentenceTeacher"
    /\ ~gen.done
    /\ LET pos == NextPos(squad, <<gen.pos[1], gen.pos[2], gen.pos[3] + 1>>)
       IN  IF pos = Exhausted
           THEN /\ gen' = [gen EXCEPT !.done = TRUE]
                /\ UNCHANGED <<action, locals>>
           ELSE \E loc \in {SentenceLocals(squad, pos, sent_tok)} :
                LET question == squad[pos[1]].paragraphs[pos[2]].qas[pos[3]].question
                IN  /\ gen' = [pos |-> pos, n |-> gen.n + 1, done |-> FALSE]
                    /\ locals' = loc
                    /\ action' = [kind |-> "yield", idx |-> gen.n + 1,
                                  rec |-> YieldRecord(loc.context \o NL \o question,
                                                      LabelTexts(loc))]
    /\ UNCHANGED <<teacher, squad, examples, sent_tok, first, ncalls>>

Next ==
    \/ \E i \in 1..Len(examples) : IndexGet(i)
    \/ \E i \in 1..Len(examples) : SentenceIndexGet(i)
    \/ DefaultNext
    \/ SentenceNext

Spec == Init /\ [][Next]_vars

SpecFlat == InitFlat /\ [][Next]_vars

---------------------------------------------------------------------------
\* Properties.

\* The question the last record is about, and its data.
Emitted == action.kind \in {"return", "yield"}
CurEx == IF teacher \in IndexTeachers THEN examples[action.idx] ELSE gen.pos
CurParagraph == squad[CurEx[1]].paragraphs[CurEx[2]]
CurQa == CurParagraph.qas[CurEx[3]]
\* The context part of the emitted text: text without "\n" + question.
ContextPart == SubSeq(action.rec.text, 1, Len(action.rec.text) - 1 - Len(CurQa.question))
\* s[start : start + n] for a 0-based start.
PySlice(s, start, n) == SubSeq(s, start + 1, start + n)
HasTerminal(s) == \E k \in 1..Len(s) : s[k] \in Terminal
\* Every answer of the last aligner run keeps a character when edited.
WordAnswers == \A k \in 1..Len(locals.answers) : EditAnswer(locals.answers[k]) # <<>>
\* ... and the restore loop gave the paragraph's context back.
Restored == WordAnswers /\ locals.context = locals.context0

\* C1 (round-trip restoration): after the edit loop and the restore loop the
\* context is the original context of the paragraph again (stated for
\* answers that keep a character when edited; an answer that is only
\* punctuation breaks it as well).
C1_RoundTrip == (locals.ran /\ WordAnswers) => locals.context = locals.context0

\* C2 (offset correctness): every sentence SentenceIndexTeacher.get selects
\* as a label occurs in the restored context, and the record it returns
\* gives each label an offset at which the context part of text reads the
\* label (stated for the runs whose restore loop gives the context back).
C2_OffsetCorrect ==
    (teacher = "SentenceIndexTeacher" /\ locals.ran /\ Restored) =>
        /\ \A k \in 1..Len(locals.picked) :
               Contains(locals.context, locals.picked[k].text)
        /\ action.kind = "return"
        /\ \A k \in 1..Len(action.rec.labels) :
               PySlice(ContextPart, action.rec.answer_starts[k],
                       Len(action.rec.labels[k])) = action.rec.labels[k]

\* C3 (alignment failure is recoverable): no call of the aligner ends with
\* an error; every question gets a record (stated for the runs whose
\* restore loop gives the context back).
C3_Recoverable == (locals.ran /\ Restored) => Emitted

\* C4 (first-match ordering): the labels are in the order of the tokenizer's
\* sentences and each tokenized sentence gives at most one label (stated
\* for the runs whose restore loop gives the context back).
C4_FirstMatch ==
    (locals.ran /\ Restored) =>
        \A i, j \in 1..Len(locals.picked) :
            i < j => locals.picked[i].src < locals.picked[j].src

\* C5 (containment): every label a Sentence teacher emits contains the
\* original text of one of the question's answers.
C5_Containment ==
    (teacher \in SentenceTeachers /\ Emitted) =>
        \A k \in 1..Len(action.rec.labels) :
            \E a \in 1..Len(CurQa.answers) :
                Contains(action.rec.labels[k], CurQa.answers[a].text)

\* A record with a label was emitted although some restored sentence
\* contains none of the answers.
C5_Witness ==
    /\ teacher \in SentenceTeachers /\ Emitted
    /\ Len(action.rec.labels) >= 1
    /\ \E s \in 1..Len(locals.sentences) :
           \A a \in 1..Len(CurQa.answers) :
               ~Contains(locals.sentences[s].text, CurQa.answers[a].text)

\* C6 (de-duplication): no two labels of an emitted record are the same text.
C6_Dedup ==
    (teacher \in SentenceTeachers /\ Emitted) =>
        \A i, j \in 1..Len(action.rec.labels) :
            i # j => action.rec.labels[i] # action.rec.labels[j]

\* A record was emitted for a question whose tokenizer yielded the same
\* sentence, containing an answer, twice, and for a question that lists the
\* same answer twice.
C6_Witness ==
    /\ teacher \in SentenceTeachers /\ Emitted
    /\ Len(action.rec.labels) >= 1
    /\ \E s, t \in 1..Len(locals.sentences) :
           /\ locals.sentences[s].src # locals.sentences[t].src
           /\ locals.sentences[s].text = locals.sentences[t].text
           /\ \E a \in 1..Len(CurQa.answers) :
                  Contains(locals.sentences[s].text, CurQa.answers[a].text)
    /\ Len(CurQa.answers) = 2 /\ CurQa.answers[1] = CurQa.answers[2]

\* Source order of the questions of a file.
ValidTriples(sq) ==
    UNION {UNION {{<<a, p, q>> : q \in 1..Len(sq[a].paragraphs[p].qas)} :
                  p \in 1..Len(sq[a].paragraphs)} :
           a \in 1..Len(sq)}
LexLess(u, t) ==
    \/ u[1] < t[1]
    \/ u[1] = t[1] /\ u[2] < t[2]
    \/ u[1] = t[1] /\ u[2] = t[2] /\ u[3] < t[3]
Rank(sq, t) == Cardinality({u \in ValidTriples(sq) : LexLess(u, t)}) + 1
QuestionText(sq, t) ==
    sq[t[1]].paragraphs[t[2]].context \o NL \o sq[t[1]].paragraphs[t[2]].qas[t[3]].question

\* C7 (flattening order): examples holds exactly the questions of the file
\* in article, paragraph, question order; get(i) is about the i-th of them;
\* the i-th record DefaultTeacher.setup_data yields is the one
\* IndexTeacher.get(i) returns, and the generator ends after one record per
\* question.
C7_Flattening ==
    /\ teacher \in IndexTeachers =>
           /\ Len(examples) = Cardinality(ValidTriples(squad))
           /\ \A i \in 1..Len(examples) :
                  /\ examples[i] \in ValidTriples(squad)
                  /\ Rank(squad, examples[i]) = i
    /\ (teacher = "IndexTeacher" /\ action.kind = "return") =>
           \E t \in ValidTriples(squad) :
               /\ Rank(squad, t) = action.idx
               /\ action.rec.text = QuestionText(squad, t)
    /\ (teacher = "DefaultTeacher" /\ action.kind = "yield") =>
           LET r == IndexRecord(squad, SetupExamples(squad)[action.idx])
           IN  /\ action.rec.text = r.text
               /\ action.rec.labels = r.labels
               /\ Rank(squad, gen.pos) = gen.n
    /\ (teacher = "DefaultTeacher" /\ gen.done) =>
           gen.n = Cardinality(ValidTriples(squad))

\* get returned the last example, a question of the second article, of a
\* file with two articles, one of whose paragraphs has no question.
C7_Witness ==
    /\ teacher = "IndexTeacher" /\ action.kind = "return"
    /\ Len(squad) = 2
    /\ Len(examples) >= 2 /\ action.idx = Len(examples)
    /\ examples[action.idx][1] = 2
    /\ \E a \in 1..Len(squad) : \E p \in 1..Len(squad[a].paragraphs) :
           Len(squad[a].paragraphs[p].qas) = 0

\* C8 (punctuated answer): for a single answer that contains terminal
\* punctuation the aligner emits at least one label, and every label is a
\* sentence of the paragraph's context with the answer in it (stated for
\* an answer that keeps a character when edited).
C8_PunctuatedAnswer ==
    (/\ teacher \in SentenceTeachers /\ locals.ran /\ WordAnswers
     /\ Len(locals.answers) = 1 /\ HasTerminal(locals.answers[1])) =>
        /\ Emitted
        /\ Len(action.rec.labels) >= 1
        /\ \A k \in 1..Len(action.rec.labels) :
               /\ Contains(locals.context0, action.rec.labels[k])
               /\ Contains(action.rec.labels[k], locals.answers[1])

\* C9 (no side effects, determinism): no call changes the loaded data, the
\* examples or the tokenizer, and a get for the index of the first call
\* gives the outcome of the first call again.
C9_NoSideEffects ==
    [][/\ squad' = squad
       /\ examples' = examples
       /\ sent_tok' = sent_tok
       /\ (ncalls' > ncalls /\ ncalls >= 1 /\ action'.idx = first.idx) => action' = first]_vars

\* SentenceIndexTeacher.get ran at least twice, the last time for the index
\* of the first call, for a question whose context the edit loop changes.
C9_Witness ==
    /\ teacher = "SentenceIndexTeacher"
    /\ ncalls >= 2 /\ action.idx = first.idx /\ action.kind = "return"
    /\ Len(examples) >= 2
    /\ locals.edited_context # locals.context0

\* C10 (record shape): IndexTeacher.get returns context + "\n" + question,
\* episode_done, the answer texts and their answer_start values in source
\* order; a record returned by either get has as many answer_starts as
\* labels, and the context part of text reads labels[k] at answer_starts[k].
C10_RecordShape ==
    /\ (teacher = "IndexTeacher" /\ action.kind = "return") =>
           /\ action.rec.text = CurParagraph.context \o NL \o CurQa.question
           /\ action.rec.episode_done = TRUE
           /\ Len(action.rec.labels) = Len(CurQa.answers)
           /\ \A k \in 1..Len(CurQa.answers) :
                  /\ action.rec.labels[k] = CurQa.answers[k].text
                  /\ action.rec.answer_starts[k] = CurQa.answers[k].answer_start
    /\ (teacher \in IndexTeachers /\ action.kind = "return") =>
           /\ action.rec.episode_done = TRUE
           /\ Len(action.rec.labels) = Len(action.rec.answer_starts)
           /\ \A k \in 1..Len(action.rec.labels) :
                  PySlice(ContextPart, action.rec.answer_starts[k],
                          Len(action.rec.labels[k])) = action.rec.labels[k]

\* IndexTeacher.get returned a record with two different answers at two
\* different offsets.
C10_Witness ==
    /\ teacher = "IndexTeacher" /\ action.kind = "return"
    /\ Len(action.rec.labels) = 2
    /\ action.rec.labels[1] # action.rec.labels[2]
    /\ action.rec.answer_starts[1] # action.rec.answer_starts[2]

====
